---------------------------- MODULE Spec2Model ----------------------------
(***************************************************************************)
(* The filter elements of troi/filters.py.                                 *)
(*                                                                         *)
(* Every element is an object configured by __init__ whose read() takes a  *)
(* list of Recording objects and returns a new list holding some of the    *)
(* same objects, or raises.  The state is the element (self), the input    *)
(* list read() was called with (recordings, empty before the call), and    *)
(* what read() produced: the returned list (results) or the exception      *)
(* raised.  A returned list is modelled as the list of the positions of    *)
(* the input objects it holds, so that two equal recordings at different   *)
(* positions stay distinguishable, as the two objects are in Python.       *)
(*                                                                         *)
(* Python's None is the empty tuple <<>> and a present value v is <<v>>.   *)
(***************************************************************************)
EXTENDS Integers, Sequences, FiniteSets, TLC

VARIABLES self, recordings, pc, results, exception

vars == <<self, recordings, pc, results, exception>>

-----------------------------------------------------------------------------
(* Bounds of the model *)

\* longest input list of the elements that read several fields
MaxLen == 3
\* longest input list of the two elements that read the mbid only
MaxIdLen == 7
\* largest count an ArtistCreditLimiterElement is configured with
MaxCount == 2
\* the most negative count is -MaxNegCount
MaxNegCount == 1

-----------------------------------------------------------------------------
(* Python values *)

None == <<>>

Some(v) == <<v>>

\* bool(x) of an optional integer: None and 0 are false
Truthy(x) == x # None /\ x[1] # 0

Range(s) == {s[i] : i \in 1..Len(s)}

SeqsUpTo(D, n) == UNION {[1..k -> D] : k \in 0..n}

Min(a, b) == IF a <= b THEN a ELSE b

Max(a, b) == IF a >= b THEN a ELSE b

\* s[:n] of a Python list: n >= 0 keeps the first n elements, n < 0 drops the
\* last -n elements
Slice(s, n) == SubSeq(s, 1, IF n >= 0 THEN Min(n, Len(s)) ELSE Max(Len(s) + n, 0))

-----------------------------------------------------------------------------
(* The entities.  An Artist object is always true in a boolean context.    *)
(* A Recording always has an mbid; its name, year, ranking and artist may   *)
(* be None, and so may the artist_credit_id and the name of an Artist.     *)

Artist(artist_credit_id, name) == [artist_credit_id |-> artist_credit_id, name |-> name]

Recording(mbid, name, year, ranking, artist) ==
    [mbid |-> mbid, name |-> name, year |-> year, ranking |-> ranking, artist |-> artist]

Mbids == {"A", "B", "C"}

\* the positions i of 1..n, in order, with keep[i]: the loop
\* "for r in recordings: if <keep>: results.append(r)"
FilterLoop(n, keep) ==
    LET F[i \in 0..n] ==
            IF i = 0 THEN <<>>
            ELSE IF keep[i] THEN Append(F[i - 1], i) ELSE F[i - 1]
    IN F[n]

\* the state right after __init__
Constructed(configs) ==
    /\ self \in configs
    /\ recordings = <<>>
    /\ pc = "constructed"
    /\ results = <<>>
    /\ exception = "none"

\* read(inputs) returns output.  read() is called once on each element: the
\* Next of every specification guards it with pc = "constructed".
Return(inputs, output) ==
    /\ recordings' = inputs
    /\ results' = output
    /\ pc' = "returned"
    /\ UNCHANGED <<self, exception>>

\* read(inputs) raises exc
Raise(inputs, exc) ==
    /\ recordings' = inputs
    /\ exception' = exc
    /\ pc' = "raised"
    /\ UNCHANGED <<self, results>>

-----------------------------------------------------------------------------
(* DuplicateRecordingFilterElement *)

\* a filter that compares with the previous input element only
RECURSIVE MutDuplicateLoop(_, _, _, _)
MutDuplicateLoop(recs, i, seen, output) ==
    IF i > Len(recs) THEN output
    ELSE IF recs[i].mbid \notin seen
         THEN MutDuplicateLoop(recs, i + 1, {recs[i].mbid}, Append(output, i))
         ELSE MutDuplicateLoop(recs, i + 1, seen, output)

RECURSIVE DuplicateLoop(_, _, _, _)
DuplicateLoop(recs, i, seen, output) ==
    IF i > Len(recs) THEN output
    ELSE IF recs[i].mbid \notin seen
         THEN DuplicateLoop(recs, i + 1, seen \cup {recs[i].mbid}, Append(output, i))
         ELSE DuplicateLoop(recs, i + 1, seen, output)

DuplicateRecordingFilterElement_read(inputs) ==
    /\ self.class = "DuplicateRecordingFilterElement"
    /\ Return(inputs, DuplicateLoop(inputs, 1, {}, <<>>))

IdOnlyInputs ==
    SeqsUpTo({Recording(m, None, None, None, None) : m \in Mbids}, MaxIdLen)

InitDuplicate == Constructed({[class |-> "DuplicateRecordingFilterElement"]})

NextDuplicate ==
    /\ pc = "constructed"
    /\ \E inputs \in IdOnlyInputs : DuplicateRecordingFilterElement_read(inputs)

SpecDuplicate == InitDuplicate /\ [][NextDuplicate]_vars

-----------------------------------------------------------------------------
(* ConsecutiveRecordingFilterElement *)

\* a filter that drops every mbid already in the output
RECURSIVE MutConsecutiveLoop(_, _, _, _)
MutConsecutiveLoop(recs, i, last_mbid, output) ==
    IF i > Len(recs) THEN output
    ELSE MutConsecutiveLoop(recs, i + 1, Some(recs[i].mbid),
                            IF \A k \in 1..Len(output) : recs[output[k]].mbid # recs[i].mbid
                            THEN Append(output, i) ELSE output)

RECURSIVE ConsecutiveLoop(_, _, _, _)
ConsecutiveLoop(recs, i, last_mbid, output) ==
    IF i > Len(recs) THEN output
    ELSE ConsecutiveLoop(recs, i + 1, Some(recs[i].mbid),
                         IF Some(recs[i].mbid) # last_mbid
                         THEN Append(output, i) ELSE output)

ConsecutiveRecordingFilterElement_read(inputs) ==
    /\ self.class = "ConsecutiveRecordingFilterElement"
    /\ Return(inputs, ConsecutiveLoop(inputs, 1, None, <<>>))

InitConsecutive == Constructed({[class |-> "ConsecutiveRecordingFilterElement"]})

NextConsecutive ==
    /\ pc = "constructed"
    /\ \E inputs \in IdOnlyInputs : ConsecutiveRecordingFilterElement_read(inputs)

SpecConsecutive == InitConsecutive /\ [][NextConsecutive]_vars

-----------------------------------------------------------------------------
(* EmptyRecordingFilterElement *)

\* a filter that also removes a recording without artist
MutEmptyKeeps(rec) ==
    ~(rec.name = None \/ rec.artist = None \/ rec.artist[1].name = None)

EmptyKeeps(rec) ==
    ~(rec.name = None \/ (rec.artist # None /\ rec.artist[1].name = None))

EmptyRecordingFilterElement_read(inputs) ==
    /\ self.class = "EmptyRecordingFilterElement"
    /\ Return(inputs, FilterLoop(Len(inputs),
                                 [i \in 1..Len(inputs) |-> EmptyKeeps(inputs[i])]))

Names == {None, Some(""), Some("n")}

EmptyInputs ==
    SeqsUpTo({Recording("A", n, None, None, a) :
                 n \in Names, a \in {None} \cup {Some(Artist(None, an)) : an \in Names}},
             MaxLen)

InitEmpty == Constructed({[class |-> "EmptyRecordingFilterElement"]})

NextEmpty ==
    /\ pc = "constructed"
    /\ \E inputs \in EmptyInputs : EmptyRecordingFilterElement_read(inputs)

SpecEmpty == InitEmpty /\ [][NextEmpty]_vars

-----------------------------------------------------------------------------
(* YearRangeFilterElement *)

YearRangeKeeps(r, start_year, end_year, inverse) ==
    IF ~Truthy(r.year) THEN FALSE
    ELSE IF inverse
         THEN r.year[1] < start_year \/ r.year[1] > end_year
         ELSE r.year[1] >= start_year /\ r.year[1] <= end_year

YearRangeFilterElement_read(inputs) ==
    /\ self.class = "YearRangeFilterElement"
    /\ Return(inputs, FilterLoop(Len(inputs),
                                 [i \in 1..Len(inputs) |->
                                     YearRangeKeeps(inputs[i], self.start_year,
                                                    self.end_year, self.inverse)]))

Years == {-1, 0, 1995, 2000, 2005, 2010, 2015}

RangeEnds == {0, 2000, 2010}

YearInputs ==
    SeqsUpTo({Recording("A", None, y, None, None) :
                 y \in {None} \cup {Some(v) : v \in Years}}, MaxLen)

InitYearRange ==
    Constructed([class : {"YearRangeFilterElement"}, start_year : RangeEnds,
                 end_year : RangeEnds, inverse : BOOLEAN])

NextYearRange ==
    /\ pc = "constructed"
    /\ \E inputs \in YearInputs : YearRangeFilterElement_read(inputs)

SpecYearRange == InitYearRange /\ [][NextYearRange]_vars

-----------------------------------------------------------------------------
(* ArtistCreditFilterElement *)

\* the keys of the dict built from self.artist_credit_ids; the assignment
\* ac_index[ac] = 1 raises no KeyError, so the except clause never runs
AcIndexKeys(artist_credit_ids) == {ac : ac \in artist_credit_ids}

ArtistCreditKeeps(r, ac_index, include) ==
    IF r.artist = None \/ ~Truthy(r.artist[1].artist_credit_id) THEN FALSE
    ELSE IF include
         THEN r.artist[1].artist_credit_id[1] \in ac_index
         ELSE r.artist[1].artist_credit_id[1] \notin ac_index

ArtistCreditFilterElement_read(inputs) ==
    /\ self.class = "ArtistCreditFilterElement"
    /\ Return(inputs, FilterLoop(Len(inputs),
                                 [i \in 1..Len(inputs) |->
                                     ArtistCreditKeeps(inputs[i],
                                                       AcIndexKeys(self.artist_credit_ids),
                                                       self.include)]))

CreditIds == {0, 1, 2}

CreditInputs ==
    SeqsUpTo({Recording("A", None, None, None, a) :
                 a \in {None} \cup {Some(Artist(c, None)) :
                                       c \in {None} \cup {Some(v) : v \in CreditIds}}},
             MaxLen)

InitArtistCreditFilter ==
    Constructed([class : {"ArtistCreditFilterElement"},
                 artist_credit_ids : SUBSET CreditIds, include : BOOLEAN])

NextArtistCreditFilter ==
    /\ pc = "constructed"
    /\ \E inputs \in CreditInputs : ArtistCreditFilterElement_read(inputs)

SpecArtistCreditFilter == InitArtistCreditFilter /\ [][NextArtistCreditFilter]_vars

-----------------------------------------------------------------------------
(* ArtistCreditLimiterElement *)

\* the dict key of a recording that has an artist: its artist_credit_id,
\* which may be None
CreditKey(rec) == rec.artist[1].artist_credit_id

\* ac_index after the first loop: each key occurring in the input maps to the
\* list of (mbid, ranking) of its recordings, in input order
AcIndex(recs) ==
    [key \in {CreditKey(recs[i]) : i \in 1..Len(recs)} |->
        LET F[i \in 0..Len(recs)] ==
                IF i = 0 THEN <<>>
                ELSE IF CreditKey(recs[i]) = key
                     THEN Append(F[i - 1], <<recs[i].mbid, recs[i].ranking>>)
                     ELSE F[i - 1]
        IN F[Len(recs)]]

AllHaveRankings(recs) == \A i \in 1..Len(recs) : recs[i].ranking # None

\* the place of entry e in a sorted list prev: after every entry that e does
\* not come strictly before
InsertSorted(prev, e, reverse) ==
    LET n == Cardinality({k \in 1..Len(prev) :
                             IF reverse THEN ~(e[2][1] > prev[k][2][1])
                                        ELSE ~(e[2][1] < prev[k][2][1])})
    IN SubSeq(prev, 1, n) \o <<e>> \o SubSeq(prev, n + 1, Len(prev))

\* a sort that ignores reverse
MutSorted(entries, reverse) ==
    LET F[i \in 0..Len(entries)] ==
            IF i = 0 THEN <<>> ELSE InsertSorted(F[i - 1], entries[i], FALSE)
    IN F[Len(entries)]

\* sorted(entries, key=itemgetter(1), reverse=reverse): a stable sort, equal
\* rankings keep their input order in both directions
Sorted(entries, reverse) ==
    LET F[i \in 0..Len(entries)] ==
            IF i = 0 THEN <<>> ELSE InsertSorted(F[i - 1], entries[i], reverse)
    IN F[Len(entries)]

\* the orders of n elements
Orders == [n \in 0..MaxLen |-> Permutations(1..n)]

\* random.shuffle(entries): any order of the list may result
Shuffle(entries) ==
    {[i \in 1..Len(entries) |-> entries[p[i]]] : p \in Orders[Len(entries)]}

\* a second loop that decides group by group whether to sort
MutGroupChoices(ac_index, key, all_have_rankings, exclude_lower_ranked, count) ==
    {Slice(order, count) :
        order \in IF \A k \in 1..Len(ac_index[key]) : ac_index[key][k][2] # None
                  THEN {Sorted(ac_index[key], exclude_lower_ranked)}
                  ELSE Shuffle(ac_index[key])}

\* what the second loop may leave in ac_index[key]
GroupChoices(ac_index, key, all_have_rankings, exclude_lower_ranked, count) ==
    {Slice(order, count) :
        order \in IF all_have_rankings
                  THEN {Sorted(ac_index[key], exclude_lower_ranked)}
                  ELSE Shuffle(ac_index[key])}

\* the values ac_index may have after the second loop
RECURSIVE TruncatedIndexes(_, _, _, _, _)
TruncatedIndexes(ac_index, keys, all_have_rankings, exclude_lower_ranked, count) ==
    IF keys = {} THEN {<<>>}
    ELSE LET key == CHOOSE k \in keys : TRUE IN
         {(key :> g) @@ f :
             g \in GroupChoices(ac_index, key, all_have_rankings,
                                exclude_lower_ranked, count),
             f \in TruncatedIndexes(ac_index, keys \ {key}, all_have_rankings,
                                    exclude_lower_ranked, count)}

\* pass_recs, read for membership only
PassRecs(ac_index) ==
    UNION {{ac_index[key][k][1] : k \in 1..Len(ac_index[key])} : key \in DOMAIN ac_index}

\* every list read() may return on recordings that all have an artist
LimiterOutcomes(recs, count, exclude_lower_ranked) ==
    LET ac_index == AcIndex(recs)
        all_have_rankings == AllHaveRankings(recs)
    IN {LET pass_recs == PassRecs(final)
        IN FilterLoop(Len(recs), [i \in 1..Len(recs) |-> recs[i].mbid \in pass_recs]) :
           final \in TruncatedIndexes(ac_index, DOMAIN ac_index, all_have_rankings,
                                      exclude_lower_ranked, count)}

\* rec.artist.artist_credit_id of a recording whose artist is None raises
\* AttributeError, which the except KeyError clause does not catch; a dict
\* insertion raises no KeyError, so PipelineError is never raised
ArtistCreditLimiterElement_read(inputs) ==
    /\ self.class = "ArtistCreditLimiterElement"
    /\ IF \E i \in 1..Len(inputs) : inputs[i].artist = None
       THEN Raise(inputs, "AttributeError")
       ELSE \E output \in LimiterOutcomes(inputs, self.count, self.exclude_lower_ranked) :
                Return(inputs, output)

InitArtistCreditLimiter ==
    Constructed([class : {"ArtistCreditLimiterElement"},
                 count : (0 - MaxNegCount)..MaxCount, exclude_lower_ranked : BOOLEAN])

\* read() compares mbids for equality only (r.mbid in pass_recs), so the
\* inputs are taken up to renaming of the mbids: the first recording has
\* mbid 1 and each further one has an mbid already used or the next number
MbidPatterns(n) ==
    {m \in [1..n -> 1..n] :
        \A i \in 1..n : \E j \in 0..(i - 1) : m[i] <= 1 + (IF j = 0 THEN 0 ELSE m[j])}

\* the list of n recordings with mbids m, rankings rk and artists a
LimiterInput(n, m, rk, a) == [i \in 1..n |-> Recording(m[i], None, None, rk[i], a[i])]

Credited == {Some(Artist(Some(1), None)), Some(Artist(Some(2), None))}

\* a ranking may be absent, and 0 is a ranking
Rankings == {None, Some(0), Some(5)}

\* read() on inputs in which every recording has an artist with an
\* artist_credit_id
NextArtistCreditLimiter ==
    /\ pc = "constructed"
    /\ \E n \in 0..MaxLen :
          \E m \in MbidPatterns(n), rk \in [1..n -> Rankings], a \in [1..n -> Credited] :
              ArtistCreditLimiterElement_read(LimiterInput(n, m, rk, a))

SpecArtistCreditLimiter == InitArtistCreditLimiter /\ [][NextArtistCreditLimiter]_vars

AllRanked == {Some(1), Some(5), Some(10)}

\* read() on inputs in which every recording has a ranking as well
NextArtistCreditLimiterRanked ==
    /\ pc = "constructed"
    /\ \E n \in 0..MaxLen :
          \E m \in MbidPatterns(n), rk \in [1..n -> AllRanked], a \in [1..n -> Credited] :
              ArtistCreditLimiterElement_read(LimiterInput(n, m, rk, a))

SpecArtistCreditLimiterRanked ==
    InitArtistCreditLimiter /\ [][NextArtistCreditLimiterRanked]_vars

Unattributed == {None, Some(Artist(None, None)), Some(Artist(Some(1), None))}

\* read() on inputs in which a recording may have no artist, or an artist
\* without artist_credit_id
NextArtistCreditLimiterUnattributed ==
    /\ pc = "constructed"
    /\ \E n \in 0..MaxLen :
          \E m \in MbidPatterns(n), rk \in [1..n -> {None, Some(1)}], a \in [1..n -> Unattributed] :
              ArtistCreditLimiterElement_read(LimiterInput(n, m, rk, a))

SpecArtistCreditLimiterUnattributed ==
    InitArtistCreditLimiter /\ [][NextArtistCreditLimiterUnattributed]_vars

-----------------------------------------------------------------------------
(* Reading a returned list *)

\* the positions of the input that read() returned
Kept == Range(results)

\* the returned list holds input objects in input order, none twice
InInputOrder ==
    /\ Kept \subseteq 1..Len(recordings)
    /\ \A k \in 1..(Len(results) - 1) : results[k] < results[k + 1]

MbidsOf(s) == [i \in 1..Len(s) |-> s[i].mbid]

ResultMbids == [k \in 1..Len(results) |-> recordings[results[k]].mbid]

-----------------------------------------------------------------------------
(* Claims on the simple filters *)

Returned(class) == self.class = class /\ pc = "returned"

\* C4: ConsecutiveRecordingFilterElement.read keeps an input recording exactly
\* when it is the first element or its mbid differs from the mbid of the
\* element right before it in the input; so the output never has two adjacent
\* recordings with the same mbid, equal mbids separated by another one are
\* both kept, and A, A, A, B, B, A, C gives A, B, A, C.
C4_ConsecutiveKeepsRunHeads ==
    Returned("ConsecutiveRecordingFilterElement") =>
        /\ InInputOrder
        /\ \A i \in 1..Len(recordings) :
              i \in Kept <=> (i = 1 \/ recordings[i].mbid # recordings[i - 1].mbid)
        /\ \A k \in 1..(Len(results) - 1) : ResultMbids[k] # ResultMbids[k + 1]
        /\ \A i, j \in 1..Len(recordings) :
              (/\ i < j
               /\ recordings[i].mbid = recordings[j].mbid
               /\ \E k \in (i + 1)..(j - 1) : recordings[k].mbid # recordings[i].mbid)
                 => \E p, q \in Kept :
                       /\ p <= i /\ i < q /\ q <= j
                       /\ recordings[p].mbid = recordings[i].mbid
                       /\ recordings[q].mbid = recordings[i].mbid
        /\ MbidsOf(recordings) = <<"A", "A", "A", "B", "B", "A", "C">>
              => ResultMbids = <<"A", "B", "A", "C">>

C4_Witness ==
    /\ Returned("ConsecutiveRecordingFilterElement")
    /\ MbidsOf(recordings) = <<"A", "A", "A", "B", "B", "A", "C">>
    /\ results = <<1, 4, 6, 7>>

\* C5: DuplicateRecordingFilterElement.read returns exactly the first
\* occurrence of each distinct mbid, in input order: the output is a
\* subsequence of the input, holds every mbid of the input exactly once, each
\* kept element is the earliest input element with its mbid, and
\* A, B, A, C, B gives A, B, C.
C5_DuplicateKeepsFirstOccurrences ==
    Returned("DuplicateRecordingFilterElement") =>
        /\ InInputOrder
        /\ \A i \in 1..Len(recordings) :
              i \in Kept <=> (\A j \in 1..(i - 1) : recordings[j].mbid # recordings[i].mbid)
        /\ \A m \in Range(MbidsOf(recordings)) :
              Cardinality({k \in 1..Len(results) : ResultMbids[k] = m}) = 1
        /\ MbidsOf(recordings) = <<"A", "B", "A", "C", "B">>
              => ResultMbids = <<"A", "B", "C">>

C5_Witness ==
    /\ Returned("DuplicateRecordingFilterElement")
    /\ MbidsOf(recordings) = <<"A", "B", "A", "C", "B">>
    /\ results = <<1, 2, 4>>

C6_YearRangeKeepsByRange ==
    Returned("YearRangeFilterElement") =>
        /\ InInputOrder
        /\ \A i \in 1..Len(recordings) :
              LET year == recordings[i].year IN
              /\ year = None => i \notin Kept
              /\ year # None =>
                    (i \in Kept <=>
                        IF self.inverse
                        THEN year[1] < self.start_year \/ year[1] > self.end_year
                        ELSE self.start_year <= year[1] /\ year[1] <= self.end_year)

\* C7: ArtistCreditFilterElement.read drops a recording with no artist or an
\* absent artist_credit_id; every other recording, whatever the value of its
\* credit id, is kept, in input order, exactly when (include and the id is in
\* the configured collection) or (not include and the id is not in it).
C7_ArtistCreditKeepsByMembership ==
    Returned("ArtistCreditFilterElement") =>
        /\ InInputOrder
        /\ \A i \in 1..Len(recordings) :
              LET artist == recordings[i].artist IN
              IF artist = None \/ artist[1].artist_credit_id = None
              THEN i \notin Kept
              ELSE i \in Kept <=>
                      (self.include <=>
                          artist[1].artist_credit_id[1] \in self.artist_credit_ids)

-----------------------------------------------------------------------------
(* Claims on ArtistCreditLimiterElement *)

Positions == 1..Len(recordings)

\* the artist-credit groups of the input, as sets of positions
Keys == {CreditKey(recordings[i]) : i \in Positions}

Group(key) == {i \in Positions : CreditKey(recordings[i]) = key}

DistinctMbids == \A i, j \in Positions : i # j => recordings[i].mbid # recordings[j].mbid

Unattributable(rec) == rec.artist = None \/ rec.artist[1].artist_credit_id = None

\* the input with every ranking erased
Erased(recs) == [i \in 1..Len(recs) |-> [recs[i] EXCEPT !.ranking = None]]

\* the sets of positions that hold Min(n, group size) members of every group
Selections(n) ==
    {S \in SUBSET Positions :
        \A key \in Keys : Cardinality(S \cap Group(key)) = Min(n, Cardinality(Group(key)))}

\* C1: for every count and every input, repeated mbids included, each
\* artist_credit_id that occurs in the output of ArtistCreditLimiterElement.read
\* occurs on at most count output recordings.  Stated here for count >= 1:
\* for count <= 0 the cap says that the output is empty, which is C10.
C1_LimiterCapsEveryCredit ==
    (Returned("ArtistCreditLimiterElement") /\ self.count >= 1) =>
        \A key \in {CreditKey(recordings[i]) : i \in Kept} :
            Cardinality(Kept \cap Group(key)) <= self.count

\* C2: ArtistCreditLimiterElement.read raises PipelineError and returns no
\* list whenever an input recording has no artist or an artist whose
\* artist_credit_id is absent.
C2_LimiterRaisesPipelineError ==
    (/\ self.class = "ArtistCreditLimiterElement"
     /\ pc # "constructed"
     /\ \E i \in Positions : Unattributable(recordings[i]))
        => (pc = "raised" /\ exception = "PipelineError")

\* C3: when every input recording has a ranking and the mbids are distinct,
\* the recordings ArtistCreditLimiterElement.read retains of each group are the
\* Min(count, group size) best ones for the configured direction: with
\* exclude_lower_ranked no dropped recording of the group ranks strictly
\* higher than a retained one, without it none ranks strictly lower; rankings
\* 10, 5, 1 and count = 1 keep the 10, respectively the 1.  (The number
\* retained is stated for count >= 0.)
C3_LimiterKeepsBestRanked ==
    (/\ Returned("ArtistCreditLimiterElement")
     /\ AllHaveRankings(recordings)
     /\ DistinctMbids)
        => /\ InInputOrder
           /\ \A key \in Keys :
                 LET retained == Group(key) \cap Kept
                     dropped == Group(key) \ Kept
                 IN /\ self.count >= 0 =>
                          Cardinality(retained) = Min(self.count, Cardinality(Group(key)))
                    /\ \A d \in dropped, r \in retained :
                          IF self.exclude_lower_ranked
                          THEN recordings[d].ranking[1] <= recordings[r].ranking[1]
                          ELSE recordings[d].ranking[1] >= recordings[r].ranking[1]
           /\ (/\ self.count = 1
               /\ Cardinality(Keys) = 1
               /\ {recordings[i].ranking[1] : i \in Positions} = {1, 5, 10}
               /\ Len(recordings) = 3)
                 => /\ Len(results) = 1
                    /\ recordings[results[1]].ranking[1] =
                          IF self.exclude_lower_ranked THEN 10 ELSE 1

\* rankings 5, 10, 1 under one credit, count = 1, exclude_lower_ranked: the
\* recording ranked 10 is the output
C3_Witness ==
    /\ Returned("ArtistCreditLimiterElement")
    /\ self.count = 1 /\ self.exclude_lower_ranked
    /\ DistinctMbids
    /\ Len(recordings) = 3
    /\ [i \in 1..3 |-> recordings[i].ranking] = <<Some(5), Some(10), Some(1)>>
    /\ Cardinality(Keys) = 1
    /\ results = <<2>>

\* C9: the ranked/unranked decision of ArtistCreditLimiterElement.read is one
\* flag over the whole input.  If at least one input recording lacks a
\* ranking, no group is ordered by ranking: the lists read() may return are
\* those it may return on the same input with all rankings erased, and (for
\* distinct mbids and count >= 0) they are exactly the choices of
\* Min(count, group size) members of every group, groups whose members all
\* have rankings included.
C9_LimiterIgnoresPartialRankings ==
    (/\ Returned("ArtistCreditLimiterElement")
     /\ ~AllHaveRankings(recordings))
        => LET outcomes == LimiterOutcomes(recordings, self.count, self.exclude_lower_ranked)
           IN /\ results \in outcomes
              /\ outcomes = LimiterOutcomes(Erased(recordings), self.count,
                                            self.exclude_lower_ranked)
              /\ (DistinctMbids /\ self.count >= 0)
                    => {Range(o) : o \in outcomes} = Selections(self.count)

\* one group of two ranked recordings and one group of an unranked one,
\* count = 1: the lower ranked of the two is retained although
\* exclude_lower_ranked is set
C9_Witness ==
    /\ Returned("ArtistCreditLimiterElement")
    /\ self.count = 1 /\ self.exclude_lower_ranked
    /\ DistinctMbids
    /\ Len(recordings) = 3
    /\ [i \in 1..3 |-> recordings[i].ranking] = <<Some(0), Some(5), None>>
    /\ Group(CreditKey(recordings[1])) = {1, 2}
    /\ results = <<1, 3>>

\* C10: for every count <= 0 the output of ArtistCreditLimiterElement.read is
\* empty, and for count >= 1 every group with at most count members is kept
\* whole.
C10_LimiterCountEdgeCases ==
    Returned("ArtistCreditLimiterElement") =>
        /\ self.count <= 0 => results = <<>>
        /\ self.count >= 1 =>
              \A key \in Keys :
                  Cardinality(Group(key)) <= self.count => Group(key) \subseteq Kept

=============================================================================
